---------------------------- MODULE Spec2Model ----------------------------
(***************************************************************************)
(* A model of ts-ply (class PlyData): the PLY header parser, the three     *)
(* body codecs (ascii, binary_little_endian, binary_big_endian), the ASCII *)
(* writer and the accessors.                                               *)
(*                                                                         *)
(* Representation.  A file, a line and a token are sequences of character  *)
(* codes (bytes, 0..255).  A JavaScript number is an integer; NaN and      *)
(* undefined are two integers no input of the model produces.  An          *)
(* undefined string (an index past the end of an array of lines or tokens) *)
(* is the one-element sequence UndefStr.                                   *)
(***************************************************************************)
EXTENDS Integers, Sequences, FiniteSets, TLC

(***************************************************************************)
(* Characters and string literals                                          *)
(***************************************************************************)
Digits == "0123456789"
UpperCase == "ABCDEFGHIJKLMNOPQRSTUVWXYZ"
LowerCase == "abcdefghijklmnopqrstuvwxyz"
IndexIn(str, c) == CHOOSE i \in 1..Len(str) : SubSeq(str, i, i) = c
InStr(str, c) == \E i \in 1..Len(str) : SubSeq(str, i, i) = c

\* String.prototype.charCodeAt for a one-character string.
CharCode(c) ==
  IF c = "\n" THEN 10
  ELSE IF c = "\t" THEN 9
  ELSE IF c = " " THEN 32
  ELSE IF c = "-" THEN 45
  ELSE IF c = "." THEN 46
  ELSE IF c = "_" THEN 95
  ELSE IF InStr(Digits, c) THEN 47 + IndexIn(Digits, c)
  ELSE IF InStr(UpperCase, c) THEN 64 + IndexIn(UpperCase, c)
  ELSE 96 + IndexIn(LowerCase, c)

\* The character codes of a string literal.
B(s) == <<>> \o [i \in 1..Len(s) |-> CharCode(SubSeq(s, i, i))]

\* The string literals of the program.
StrNaN == B("NaN")
StrUndefined == B("undefined")
StrPlyNl == B("ply\n")
StrFormatAsciiSp == B("format ascii ")
StrCommentSp == B("comment ")
StrObjInfoSp == B("obj_info ")
StrElementSp == B("element ")
StrPropertyListUchar == B("property list uchar")
EndHeaderMarker == B("end_header\n")
VertexName == B("vertex")
FaceName == B("face")
NameX == B("x")
NameY == B("y")
NameZ == B("z")
NameRed == B("red")
NameGreen == B("green")
NameBlue == B("blue")
NameVertexIndices == B("vertex_indices")
NameVertexIndex == B("vertex_index")
KwPly == B("ply")
KwFormat == B("format")
KwVersion == B("1.0")
KwComment == B("comment")
KwObjInfo == B("obj_info")
KwElement == B("element")
KwPropertyList == B("property list")
KwProperty == B("property")
KwEndHeader == B("end_header")
FmtAscii == B("ascii")
FmtLittle == B("binary_little_endian")
FmtBig == B("binary_big_endian")
Sp == B(" ")
Nl == B("\n")

NaN == -999999999
Undefined == -999999998
UndefStr == <<-1>>
NoFile == <<-2>>

LF == 10
IsDelimiter(c) == c = 32 \/ c = 9
IsNewline(c) == c = LF
IsWhiteSpace(c) == c \in {9, 10, 11, 12, 13, 32}
IsDigit(c) == c >= 48 /\ c <= 57

\* String.prototype.split(sep) where sep matches exactly one character:
\* the pieces between the separators, empty pieces kept.
SplitAt(s, isNl) ==
  LET seps == {j \in 1..Len(s) : IF isNl THEN IsNewline(s[j]) ELSE IsDelimiter(s[j])}
      n == Cardinality(seps)
      pos == [k \in 0..(n + 1) |->
                IF k = 0 THEN 0
                ELSE IF k = n + 1 THEN Len(s) + 1
                ELSE CHOOSE j \in seps : Cardinality({q \in seps : q < j}) = k - 1]
  IN <<>> \o [k \in 1..(n + 1) |-> SubSeq(s, pos[k - 1] + 1, pos[k] - 1)]

SplitLines(s) == SplitAt(s, TRUE)
SplitTokens(s) == SplitAt(s, FALSE)

\* array[index] with a 0-based index: undefined past the end.
At0(arr, i) == IF i >= 0 /\ i < Len(arr) THEN arr[i + 1] ELSE UndefStr
NumAt0(arr, i) == IF i >= 0 /\ i < Len(arr) THEN arr[i + 1] ELSE Undefined

StartsWith(s, p) == Len(s) >= Len(p) /\ SubSeq(s, 1, Len(p)) = p
Substring(s, n) == IF n >= Len(s) THEN <<>> ELSE SubSeq(s, n + 1, Len(s))

RECURSIVE TrimLeft(_)
TrimLeft(s) == IF s # <<>> /\ IsWhiteSpace(Head(s)) THEN TrimLeft(Tail(s)) ELSE s
RECURSIVE TrimRight(_)
TrimRight(s) ==
  IF s # <<>> /\ IsWhiteSpace(s[Len(s)]) THEN TrimRight(SubSeq(s, 1, Len(s) - 1)) ELSE s
Trim(s) == TrimRight(TrimLeft(s))

\* The value of the longest prefix of decimal digits of s from position i,
\* acc being the value so far.
RECURSIVE DigitsValue(_, _, _)
DigitsValue(s, i, acc) ==
  IF i <= Len(s) /\ IsDigit(s[i]) THEN DigitsValue(s, i + 1, acc * 10 + (s[i] - 48))
  ELSE acc

\* parseInt(token) / parseFloat(token) on a token without a fraction, an
\* exponent or a radix prefix: white space, an optional sign, decimal digits;
\* NaN when no digit follows.  parseInt(undefined) is NaN.
ParseDecimal(token) ==
  LET t == TrimLeft(token)
      neg == t # <<>> /\ t[1] = 45
      signed == t # <<>> /\ (t[1] = 45 \/ t[1] = 43)
      d == IF signed THEN Tail(t) ELSE t
  IN IF d = <<>> \/ ~IsDigit(d[1]) THEN NaN
     ELSE IF neg THEN 0 - DigitsValue(d, 1, 0) ELSE DigitsValue(d, 1, 0)

ParseInt(token) == ParseDecimal(token)
ParseFloat(token) == ParseDecimal(token)

\* Number-to-string conversion of a template literal `${n}`.
RECURSIVE NatToStr(_)
NatToStr(n) == IF n < 10 THEN <<48 + n>> ELSE Append(NatToStr(n \div 10), 48 + (n % 10))
NumToStr(n) ==
  IF n = NaN THEN StrNaN
  ELSE IF n = Undefined THEN StrUndefined
  ELSE IF n < 0 THEN <<45>> \o NatToStr(0 - n)
  ELSE NatToStr(n)

JsAdd(a, b) == IF a = NaN \/ b = NaN \/ a = Undefined \/ b = Undefined THEN NaN ELSE a + b
JsSub(a, b) == IF a = NaN \/ b = NaN \/ a = Undefined \/ b = Undefined THEN NaN ELSE a - b
JsLess(a, b) == a # NaN /\ b # NaN /\ a # Undefined /\ b # Undefined /\ a < b


(***************************************************************************)
(* Type registry: PropertyType, getNumByte, readValue, parseValue          *)
(***************************************************************************)
PropertyType == {"char", "uchar", "short", "ushort", "int", "uint", "float", "double"}

\* A finite value that is no integer of the model's range (a fraction, an
\* infinity, a magnitude of 2^31 or more): the model keeps no more of it.
NonInteger == -999999997

RECURSIVE Pow2(_)
Pow2(n) == IF n <= 0 THEN 1 ELSE 2 * Pow2(n - 1)

\* Property.getNumByte
GetNumByte(type) ==
  CASE type \in {"char", "uchar"} -> 1
    [] type \in {"short", "ushort"} -> 2
    [] type \in {"int", "uint", "float"} -> 4
    [] type = "double" -> 8

\* The bytes of a field, most significant first.
FieldBytes(buffer, offset, n, littleEndian) ==
  <<>> \o [k \in 1..n |-> IF littleEndian THEN buffer[offset + n - k + 1] ELSE buffer[offset + k]]

\* Buffer.readUintLE / readUintBE of 1, 2 or 4 bytes (msb: most significant first).
UintOf(msb) ==
  IF Len(msb) = 1 THEN msb[1]
  ELSE IF Len(msb) = 2 THEN msb[1] * 256 + msb[2]
  ELSE IF msb[1] >= 128 THEN NonInteger
  ELSE msb[1] * 16777216 + msb[2] * 65536 + msb[3] * 256 + msb[4]

\* Buffer.readIntLE / readIntBE: two's complement.
IntOf(msb) ==
  IF Len(msb) = 1 THEN (IF msb[1] >= 128 THEN msb[1] - 256 ELSE msb[1])
  ELSE IF Len(msb) = 2
       THEN (IF msb[1] >= 128 THEN msb[1] * 256 + msb[2] - 65536 ELSE msb[1] * 256 + msb[2])
  ELSE (IF msb[1] >= 128 THEN msb[1] - 256 ELSE msb[1]) * 16777216
       + msb[2] * 65536 + msb[3] * 256 + msb[4]

\* An IEEE-754 value sign * (2^fracBits + frac) * 2^(e - fracBits), e the
\* unbiased exponent, when it is an integer of the model's range.
ScaledValue(neg, frac, fracBits, e) ==
  LET sig == Pow2(fracBits) + frac
      mag == IF e < 0 \/ e > 30 THEN NonInteger
             ELSE IF e >= fracBits THEN sig * Pow2(e - fracBits)
             ELSE IF sig % Pow2(fracBits - e) = 0 THEN sig \div Pow2(fracBits - e)
             ELSE NonInteger
  IN IF mag = NonInteger THEN NonInteger ELSE IF neg THEN 0 - mag ELSE mag

\* Buffer.readFloatLE / readFloatBE: 1 sign bit, 8 exponent bits, 23 fraction bits.
FloatOf(msb) ==
  LET neg == msb[1] >= 128
      ex == (msb[1] % 128) * 2 + (msb[2] \div 128)
      frac == (msb[2] % 128) * 65536 + msb[3] * 256 + msb[4]
  IN IF ex = 255 THEN (IF frac = 0 THEN NonInteger ELSE NaN)
     ELSE IF ex = 0 THEN (IF frac = 0 THEN 0 ELSE NonInteger)
     ELSE ScaledValue(neg, frac, 23, ex - 127)

\* Buffer.readDoubleLE / readDoubleBE: 1 sign bit, 11 exponent bits, 52
\* fraction bits, of which the model's integers use the upper 20.
DoubleOf(msb) ==
  LET neg == msb[1] >= 128
      ex == (msb[1] % 128) * 16 + (msb[2] \div 16)
      hi == (msb[2] % 16) * 65536 + msb[3] * 256 + msb[4]
      lowZero == \A k \in 5..8 : msb[k] = 0
  IN IF ex = 2047 THEN (IF hi = 0 /\ lowZero THEN NonInteger ELSE NaN)
     ELSE IF ex = 0 THEN (IF hi = 0 /\ lowZero THEN 0 ELSE NonInteger)
     ELSE IF ~lowZero \/ ex - 1023 > 20 THEN NonInteger
     ELSE ScaledValue(neg, hi, 20, ex - 1023)

\* Whether a read of n bytes at offset stays inside the buffer (a read
\* outside throws a RangeError).
InRange(buffer, offset, n) == offset >= 0 /\ offset + n <= Len(buffer)

\* Property.readValue, for a read inside the buffer.
ReadValue(buffer, type, offset, littleEndian) ==
  LET msb == FieldBytes(buffer, offset, GetNumByte(type), littleEndian)
  IN CASE type \in {"char", "short", "int"} -> IntOf(msb)
       [] type \in {"uchar", "ushort", "uint"} -> UintOf(msb)
       [] type = "float" -> FloatOf(msb)
       [] type = "double" -> DoubleOf(msb)

\* Property.parseValue
ParseValue(token, type) ==
  IF type \in {"float", "double"} THEN ParseFloat(token) ELSE ParseInt(token)

(***************************************************************************)
(* Property model.  One record shape for both variants: isList tells a     *)
(* TypedListProperty from a TypedProperty.                                 *)
(***************************************************************************)
TypedProperty(name, type) ==
  [name |-> name, type |-> type, isList |-> FALSE, listCountBytes |-> 0 - 1,
   values |-> <<>>, flattenedData |-> <<>>, flattenedIndexStart |-> <<>>]

TypedListProperty(name, type, listCountBytes) ==
  [name |-> name, type |-> type, isList |-> TRUE, listCountBytes |-> listCountBytes,
   values |-> <<>>, flattenedData |-> <<>>, flattenedIndexStart |-> <<0>>]

\* The type names of the header grammar.
TypeNames ==
  <<  <<B("uchar"), "uchar">>, <<B("uint8"), "uchar">>,
      <<B("ushort"), "ushort">>, <<B("uint16"), "ushort">>,
      <<B("uint"), "uint">>, <<B("uint32"), "uint">>,
      <<B("char"), "char">>, <<B("int8"), "char">>,
      <<B("short"), "short">>, <<B("int16"), "short">>,
      <<B("int"), "int">>, <<B("int32"), "int">>,
      <<B("float"), "float">>, <<B("float32"), "float">>,
      <<B("double"), "double">>, <<B("float64"), "double">>  >>

\* The PropertyType a type name resolves to, "" when it is none.
ResolveType(typeStr) ==
  LET Among(names) ==
        IF \E i \in 1..Len(names) : names[i][1] = typeStr
        THEN names[CHOOSE i \in 1..Len(names) : names[i][1] = typeStr][2]
        ELSE ""
  IN Among(TypeNames)

\* The byte width of a list count type, -1 when it is none.
ResolveCountBytes(listCountTypeStr) ==
  LET Width(t) ==
        IF t \in {"char", "uchar", "short", "ushort", "int", "uint"} THEN GetNumByte(t) ELSE 0 - 1
  IN Width(ResolveType(listCountTypeStr))

\* createPropertyWithType: [ok, property]; ok FALSE stands for undefined.
CreatePropertyWithType(name, typeStr, isList, listCountTypeStr) ==
  LET Create(listCountBytes, type) ==
        IF (isList /\ listCountBytes = 0 - 1) \/ type = ""
        THEN [ok |-> FALSE, property |-> TypedProperty(<<>>, "char")]
        ELSE [ok |-> TRUE,
              property |-> IF isList THEN TypedListProperty(name, type, listCountBytes)
                           ELSE TypedProperty(name, type)]
  IN Create(IF isList THEN ResolveCountBytes(listCountTypeStr) ELSE 0 - 1, ResolveType(typeStr))

(***************************************************************************)
(* The consume operations of a property                                    *)
(***************************************************************************)
\* The values parseValue gives for tokens[tokenIndex .. tokenIndex + n - 1].
ParsedValues(tokens, tokenIndex, n, type) ==
  [k \in 1..n |-> ParseValue(At0(tokens, tokenIndex + k - 1), type)]

\* The number of iterations of `for (let i = 0; i < count; i++)`.
Iterations(count) == IF JsLess(0, count) THEN count ELSE 0

\* TypedProperty.parseNext / TypedListProperty.parseNext: the property and
\* the token index after the call.
ParseNext(property, tokens, tokenIndex) ==
  LET Push(count) ==
        LET afterSize == JsAdd(Len(property.flattenedData), count)
            n == Iterations(count)
        IN [property |-> [property EXCEPT
                            !.flattenedData = @ \o ParsedValues(tokens, tokenIndex + 1, n, property.type),
                            !.flattenedIndexStart = Append(@, afterSize)],
            tokenIndex |-> tokenIndex + 1 + n]
  IN IF ~property.isList
     THEN [property |-> [property EXCEPT !.values =
                           Append(@, ParseValue(At0(tokens, tokenIndex), property.type))],
           tokenIndex |-> tokenIndex + 1]
     ELSE Push(ParseInt(At0(tokens, tokenIndex)))

\* The values readValue gives for n consecutive fields from offset.
ReadValues(buffer, type, offset, n, littleEndian) ==
  [k \in 1..n |-> ReadValue(buffer, type, offset + (k - 1) * GetNumByte(type), littleEndian)]

\* How many of count consecutive fields of a type, from offset, lie inside
\* the buffer.
FieldsInside(buffer, type, offset, count) ==
  LET room == IF offset > Len(buffer) THEN 0 ELSE (Len(buffer) - offset) \div GetNumByte(type)
  IN IF count = NonInteger \/ count > room THEN room ELSE count

\* readNext (littleEndian) and readNextBigEndian of both variants: [ok,
\* property, offset]; ok FALSE when a read outside the buffer throws, with the
\* property as the throw leaves it.
ReadNextWith(property, buffer, offset, littleEndian) ==
  LET Push(count, start) ==
        LET afterSize == JsAdd(Len(property.flattenedData), count)
            n == FieldsInside(buffer, property.type, start, count)
            read == [property EXCEPT !.flattenedData =
                       @ \o ReadValues(buffer, property.type, start, n, littleEndian)]
            end == start + n * GetNumByte(property.type)
        IN IF n # count THEN [ok |-> FALSE, property |-> read, offset |-> end]
           ELSE [ok |-> TRUE,
                 property |-> [read EXCEPT !.flattenedIndexStart = Append(@, afterSize)],
                 offset |-> end]
  IN IF ~property.isList
     THEN IF ~InRange(buffer, offset, GetNumByte(property.type))
          THEN [ok |-> FALSE, property |-> property, offset |-> offset]
          ELSE [ok |-> TRUE,
                property |-> [property EXCEPT !.values =
                                Append(@, ReadValue(buffer, property.type, offset, littleEndian))],
                offset |-> offset + GetNumByte(property.type)]
     ELSE IF ~InRange(buffer, offset, property.listCountBytes)
          THEN [ok |-> FALSE, property |-> property, offset |-> offset]
          ELSE Push(UintOf(FieldBytes(buffer, offset, property.listCountBytes, littleEndian)),
                    offset + property.listCountBytes)

\* A little-endian reader that takes the bytes of a field in big-endian order.
ReadNextSwapped(property, buffer, offset) == ReadNextWith(property, buffer, offset, FALSE)

ReadNext(property, buffer, offset) == ReadNextWith(property, buffer, offset, TRUE)
ReadNextBigEndian(property, buffer, offset) == ReadNextWith(property, buffer, offset, FALSE)

(***************************************************************************)
(* PlyData: the header and the elements of one instance                    *)
(***************************************************************************)
\* new PlyData()
NewPlyData ==
  [header |-> [type |-> <<>>, version |-> <<>>, comments |-> <<>>, objInfoComments |-> <<>>],
   elements |-> <<>>]

NewElement(name, count) == [name |-> name, count |-> count, properties |-> <<>>]

\* this.elements[this.elements.length - 1].properties.push(property)
PushProperty(elements, property) ==
  [elements EXCEPT ![Len(elements)].properties = Append(@, property)]


\* One line of the loop of _parseHeader: "continue" (go on with the next
\* line), "break" (end_header) or "fail" (return false), with the model as
\* the line leaves it.
HeaderLine(ply, line) ==
  LET go(p) == [next |-> "continue", ply |-> p]
      fail == [next |-> "fail", ply |-> ply]
      push(c) == IF ~c.ok THEN fail
                 ELSE go([ply EXCEPT !.elements = PushProperty(@, c.property)])
      Dispatch(tokens) ==
        IF line = <<>> THEN go(ply)
        ELSE IF StartsWith(line, KwComment)
          THEN go([ply EXCEPT !.header.comments = Append(@, Substring(line, 8))])
        ELSE IF StartsWith(line, KwObjInfo)
          THEN go([ply EXCEPT !.header.objInfoComments = Append(@, Substring(line, 9))])
        ELSE IF StartsWith(line, KwElement)
          THEN IF Len(tokens) # 3 THEN fail
               ELSE go([ply EXCEPT !.elements =
                          Append(@, NewElement(tokens[2], ParseInt(tokens[3])))])
        ELSE IF StartsWith(line, KwPropertyList)
          THEN IF Len(tokens) # 5 \/ ply.elements = <<>> THEN fail
               ELSE push(CreatePropertyWithType(tokens[5], tokens[4], TRUE, tokens[3]))
        ELSE IF StartsWith(line, KwProperty)
          THEN IF Len(tokens) # 3 \/ ply.elements = <<>> THEN fail
               ELSE push(CreatePropertyWithType(tokens[3], tokens[2], FALSE, <<>>))
        ELSE IF StartsWith(line, KwEndHeader) THEN [next |-> "break", ply |-> ply]
        ELSE fail
  IN Dispatch(SplitTokens(line))

\* The loop of _parseHeader over lines[i..] (i 0-based).
RECURSIVE HeaderLoop(_, _, _)
HeaderLoop(ply, lines, i) ==
  LET Step(r) ==
        IF r.next = "fail" THEN [ok |-> FALSE, ply |-> r.ply]
        ELSE IF r.next = "break" THEN [ok |-> TRUE, ply |-> r.ply]
        ELSE HeaderLoop(r.ply, lines, i + 1)
  IN IF i >= Len(lines) THEN [ok |-> TRUE, ply |-> ply]
     ELSE Step(HeaderLine(ply, lines[i + 1]))

\* The format line of a parser that accepts every version.
FormatLineAnyVersion(ply, line) ==
  LET Verify(tokens) ==
        IF line = UndefStr \/ Len(tokens) # 3 THEN [ok |-> FALSE, ply |-> ply]
        ELSE LET p == [ply EXCEPT !.header.type = tokens[2], !.header.version = tokens[3]]
             IN IF tokens[1] # KwFormat THEN [ok |-> FALSE, ply |-> p]
                ELSE [ok |-> TRUE, ply |-> p]
  IN Verify(SplitTokens(line))

\* The format line of _parseHeader: the header's type and version are
\* assigned before the keyword and the version are checked.
FormatLine(ply, line) ==
  LET Verify(tokens) ==
        IF line = UndefStr \/ Len(tokens) # 3 THEN [ok |-> FALSE, ply |-> ply]
        ELSE LET p == [ply EXCEPT !.header.type = tokens[2], !.header.version = tokens[3]]
             IN IF tokens[1] # KwFormat THEN [ok |-> FALSE, ply |-> p]
                ELSE IF p.header.version # KwVersion THEN [ok |-> FALSE, ply |-> p]
                ELSE [ok |-> TRUE, ply |-> p]
  IN Verify(SplitTokens(line))

\* A header parser that starts from an empty model.
ParseHeaderOfNew(ply, lines) ==
  LET Loop(f) == IF ~f.ok THEN f ELSE HeaderLoop(f.ply, lines, 2)
  IN IF Trim(lines[1]) # KwPly THEN [ok |-> FALSE, ply |-> ply]
     ELSE Loop(FormatLine(NewPlyData, At0(lines, 1)))

\* PlyData._parseHeader: [ok, ply], ply the model as the call leaves it.
ParseHeader(ply, lines) ==
  LET Loop(f) == IF ~f.ok THEN f ELSE HeaderLoop(f.ply, lines, 2)
  IN IF Trim(lines[1]) # KwPly THEN [ok |-> FALSE, ply |-> ply]
     ELSE Loop(FormatLine(ply, At0(lines, 1)))

(***************************************************************************)
(* Body codecs                                                             *)
(***************************************************************************)
\* `for (const property of element.properties) iTok = property.parseNext(tokens, iTok)`
\* from property k on: the properties after the loop.
RECURSIVE ParseInstance(_, _, _, _)
ParseInstance(properties, tokens, iTok, k) ==
  LET Rest(r) == ParseInstance([properties EXCEPT ![k] = r.property], tokens, r.tokenIndex, k + 1)
  IN IF k > Len(properties) THEN properties
     ELSE Rest(ParseNext(properties[k], tokens, iTok))

\* `while (line == "") line = lines[lineCount++]`: the lineCount after it,
\* the line it stops at being lines[lineCount - 1].
RECURSIVE SkipBlank(_, _)
SkipBlank(lines, lineCount) ==
  IF At0(lines, lineCount - 1) = <<>> THEN SkipBlank(lines, lineCount + 1) ELSE lineCount

\* PlyData._parseAscii from instance i of element e (1-based) on: [ok, ply];
\* ok FALSE when line.split throws on an undefined line.
RECURSIVE ParseAsciiFrom(_, _, _, _, _)
ParseAsciiFrom(ply, lines, e, i, lineCount) ==
  LET Instance(lc, line) ==
        IF line = UndefStr THEN [ok |-> FALSE, ply |-> ply]
        ELSE ParseAsciiFrom(
               [ply EXCEPT !.elements[e].properties = ParseInstance(@, SplitTokens(line), 0, 1)],
               lines, e, i + 1, lc)
      Line(lc) == Instance(lc, At0(lines, lc - 1))
  IN IF e > Len(ply.elements) THEN [ok |-> TRUE, ply |-> ply]
     ELSE IF ~JsLess(i, ply.elements[e].count) THEN ParseAsciiFrom(ply, lines, e + 1, 0, lineCount)
     ELSE Line(IF ply.elements[e].properties = <<>> THEN SkipBlank(lines, lineCount + 1)
               ELSE lineCount + 1)

ParseAscii(ply, lines) == ParseAsciiFrom(ply, lines, 1, 0, 0)

\* `for (const property of element.properties) offset = property.readNext...(buffer, offset)`
\* from property k on: [ok, properties, offset].
RECURSIVE ReadInstance(_, _, _, _, _)
ReadInstance(properties, buffer, offset, k, littleEndian) ==
  LET Rest(r) ==
        LET ps == [properties EXCEPT ![k] = r.property]
        IN IF ~r.ok THEN [ok |-> FALSE, properties |-> ps, offset |-> r.offset]
           ELSE ReadInstance(ps, buffer, r.offset, k + 1, littleEndian)
  IN IF k > Len(properties) THEN [ok |-> TRUE, properties |-> properties, offset |-> offset]
     ELSE Rest(IF littleEndian THEN ReadNext(properties[k], buffer, offset)
               ELSE ReadNextBigEndian(properties[k], buffer, offset))

\* PlyData._parseBinary from instance i of element e on: [ok, ply].
RECURSIVE ParseBinaryFrom(_, _, _, _, _)
ParseBinaryFrom(ply, buffer, e, i, offset) ==
  LET Rest(r) ==
        LET p == [ply EXCEPT !.elements[e].properties = r.properties]
        IN IF ~r.ok THEN [ok |-> FALSE, ply |-> p]
           ELSE ParseBinaryFrom(p, buffer, e, i + 1, r.offset)
  IN IF e > Len(ply.elements) THEN [ok |-> TRUE, ply |-> ply]
     ELSE IF ~JsLess(i, ply.elements[e].count) THEN ParseBinaryFrom(ply, buffer, e + 1, 0, offset)
     ELSE Rest(ReadInstance(ply.elements[e].properties, buffer, offset, 1, TRUE))

ParseBinary(ply, buffer) == ParseBinaryFrom(ply, buffer, 1, 0, 0)

\* PlyData._parseBinaryBigEndian from element e on: each property of each
\* element is read once; there is no loop over element.count.
RECURSIVE ParseBinaryBigEndianFrom(_, _, _, _)
ParseBinaryBigEndianFrom(ply, buffer, e, offset) ==
  LET Rest(r) ==
        LET p == [ply EXCEPT !.elements[e].properties = r.properties]
        IN IF ~r.ok THEN [ok |-> FALSE, ply |-> p]
           ELSE ParseBinaryBigEndianFrom(p, buffer, e + 1, r.offset)
  IN IF e > Len(ply.elements) THEN [ok |-> TRUE, ply |-> ply]
     ELSE Rest(ReadInstance(ply.elements[e].properties, buffer, offset, 1, FALSE))

ParseBinaryBigEndian(ply, buffer) == ParseBinaryBigEndianFrom(ply, buffer, 1, 0)

(***************************************************************************)
(* load                                                                    *)
(***************************************************************************)

\* Whether the marker occurs in data at 0-based position i.
MatchedAt(data, i) ==
  /\ i + Len(EndHeaderMarker) <= Len(data)
  /\ data[i + 1] = EndHeaderMarker[1]
  /\ SubSeq(data, i + 1, i + Len(EndHeaderMarker)) = EndHeaderMarker

\* Uint8Array.slice(start) / Buffer.slice(start): a negative start counts
\* from the end.
SliceFrom(data, start) ==
  LET from == IF start < 0 THEN (IF Len(data) + start < 0 THEN 0 ELSE Len(data) + start)
              ELSE IF start > Len(data) THEN Len(data) ELSE start
  IN SubSeq(data, from + 1, Len(data))

\* splitByEndHeader: <<header, rest>> at the first occurrence of the
\* marker, <<>> when there is none.
SplitByEndHeader(data) ==
  LET found == {i \in 0..(Len(data) - 1) : MatchedAt(data, i)}
  IN IF found = {} THEN <<>>
     ELSE LET i == CHOOSE i \in found : \A j \in found : i <= j
              headerLength == i + Len(EndHeaderMarker)
          IN << SubSeq(data, 1, headerLength), SliceFrom(data, headerLength - Len(data)) >>

\* Buffer.toString(): UTF-8 text; a byte that is no ASCII character decodes
\* to U+FFFD.
BufferToString(bytes) == <<>> \o [k \in 1..Len(bytes) |-> IF bytes[k] < 128 THEN bytes[k] ELSE 65533]

\* PlyData.load on the bytes of the file: [ret, ply].
LoadBytes(ply, buf) ==
  LET Result(b) == [ret |-> b.ok, ply |-> b.ply]
      Body(h, rest) ==
        IF ~h.ok THEN [ret |-> FALSE, ply |-> h.ply]
        ELSE LET type == h.ply.header.type
             IN Result(IF type = FmtAscii
                         THEN ParseAscii(h.ply, SplitLines(BufferToString(rest)))
                       ELSE IF type = FmtLittle THEN ParseBinary(h.ply, rest)
                       ELSE IF type = FmtBig THEN ParseBinaryBigEndian(h.ply, rest)
                       ELSE [ok |-> FALSE, ply |-> h.ply])
      Split(splittedBuf) ==
        IF Len(splittedBuf) # 2 THEN [ret |-> FALSE, ply |-> ply]
        ELSE Body(ParseHeader(ply, SplitLines(BufferToString(splittedBuf[1]))), splittedBuf[2])
  IN Split(SplitByEndHeader(buf))

(***************************************************************************)
(* save: the chunks handed to the write stream, in order                   *)
(***************************************************************************)
StrChar == B("char")
StrUchar == B("uchar")
StrShort == B("short")
StrUshort == B("ushort")
StrInt == B("int")
StrUint == B("uint")
StrFloat == B("float")
StrDouble == B("double")
\* `${property.type}`
TypeText(type) ==
  CASE type = "char" -> StrChar
    [] type = "uchar" -> StrUchar
    [] type = "short" -> StrShort
    [] type = "ushort" -> StrUshort
    [] type = "int" -> StrInt
    [] type = "uint" -> StrUint
    [] type = "float" -> StrFloat
    [] type = "double" -> StrDouble

RECURSIVE Concat(_)
Concat(chunks) == IF chunks = <<>> THEN <<>> ELSE Head(chunks) \o Concat(Tail(chunks))

\* writeHeaderOfProperty
WriteHeaderOfProperty(property) ==
  LET propertyPrefix == IF ~property.isList THEN KwProperty ELSE StrPropertyListUchar
  IN << propertyPrefix \o Sp \o TypeText(property.type) \o Sp \o property.name \o Nl >>

\* writeHeaderOfElement
WriteHeaderOfElement(element) ==
  << StrElementSp \o element.name \o Sp \o NumToStr(element.count) \o Nl >>
  \o Concat([k \in 1..Len(element.properties) |-> WriteHeaderOfProperty(element.properties[k])])

\* PlyData._writeHeader
WriteHeader(ply) ==
  << StrPlyNl, StrFormatAsciiSp \o ply.header.version \o Nl >>
  \o [k \in 1..Len(ply.header.comments) |-> StrCommentSp \o ply.header.comments[k] \o Nl]
  \o [k \in 1..Len(ply.header.objInfoComments) |->
        StrObjInfoSp \o ply.header.objInfoComments[k] \o Nl]
  \o Concat([e \in 1..Len(ply.elements) |-> WriteHeaderOfElement(ply.elements[e])])
  \o << EndHeaderMarker >>

\* writeProperty(ws, property, index)
WriteProperty(property, index) ==
  IF ~property.isList
  THEN << NumToStr(NumAt0(property.values, index)) \o Sp >>
  ELSE LET start == NumAt0(property.flattenedIndexStart, index)
           end == NumAt0(property.flattenedIndexStart, index + 1)
           count == JsSub(end, start)
           n == IF JsLess(start, end) THEN end - start ELSE 0
       IN << NumToStr(count) >>
          \o [k \in 1..n |-> Sp \o NumToStr(NumAt0(property.flattenedData, start + k - 1))]
          \o << Sp >>

\* The chunks of instance i of an element: each property, then "\n".
WriteInstance(element, i) ==
  Concat([k \in 1..Len(element.properties) |-> WriteProperty(element.properties[k], i)])
  \o << Nl >>

\* The chunks of the body loop of save.
WriteBody(ply) ==
  Concat([e \in 1..Len(ply.elements) |->
            Concat([i \in 1..Iterations(ply.elements[e].count) |->
                      WriteInstance(ply.elements[e], i - 1)])])

\* Everything save writes to the stream before ws.end().
SaveChunks(ply) == WriteHeader(ply) \o WriteBody(ply)

(***************************************************************************)
(* Accessors                                                               *)
(***************************************************************************)
\* Array.prototype.find by name: the 1-based index of the first match, 0
\* for undefined.
FindByName(arr, name) ==
  IF \E k \in 1..Len(arr) : arr[k].name = name
  THEN CHOOSE k \in 1..Len(arr) : arr[k].name = name /\ \A j \in 1..(k - 1) : arr[j].name # name
  ELSE 0

\* getValues of _getVertexValues
GetValues(property) == IF ~property.isList THEN property.values ELSE <<>>

\* PlyData._getVertexValues: [throws, values].
GetVertexValues(ply, vertexElementName, componentName1, componentName2, componentName3) ==
  LET v == FindByName(ply.elements, vertexElementName)
      props == IF v = 0 THEN <<>> ELSE ply.elements[v].properties
      k1 == FindByName(props, componentName1)
      k2 == FindByName(props, componentName2)
      k3 == FindByName(props, componentName3)
      thrown == [throws |-> TRUE, values |-> <<>>]
  IN IF k1 = 0 \/ k2 = 0 \/ k3 = 0 THEN thrown
     ELSE LET values1 == GetValues(props[k1])
              values2 == GetValues(props[k2])
              values3 == GetValues(props[k3])
          IN IF Len(values1) # Len(values2) \/ Len(values1) # Len(values3) THEN thrown
             ELSE [throws |-> FALSE,
                   values |-> [j \in 1..(3 * Len(values1)) |->
                                 IF j % 3 = 1 THEN values1[(j + 2) \div 3]
                                 ELSE IF j % 3 = 2 THEN values2[(j + 2) \div 3]
                                 ELSE values3[(j + 2) \div 3]]]

GetVertexPositions(ply, vertexElementName) ==
  GetVertexValues(ply, vertexElementName, NameX, NameY, NameZ)
GetVertexColors(ply, vertexElementName) ==
  GetVertexValues(ply, vertexElementName, NameRed, NameGreen, NameBlue)

\* A getIndices that takes every property that is present.
GetIndicesOfAny(props, k) == k

\* getIndices of getFaces: the 1-based index of the property when it is a
\* TypedListProperty, 0 for null.
GetIndices(props, k) == IF k # 0 /\ props[k].isList THEN k ELSE 0

\* PlyData.getFaces: [throws, indices, strides, of]; `of` is the place
\* <<element, property>> of the property whose stored arrays are returned.
GetFaces(ply) ==
  LET face == FindByName(ply.elements, FaceName)
      props == IF face = 0 THEN <<>> ELSE ply.elements[face].properties
      vertexIndices == FindByName(props, NameVertexIndices)
      vertexIndex == FindByName(props, NameVertexIndex)
      first == GetIndices(props, vertexIndices)
      ret == IF first # 0 THEN first ELSE GetIndices(props, vertexIndex)
  IN IF ret = 0 THEN [throws |-> TRUE, indices |-> <<>>, strides |-> <<>>, of |-> <<0, 0>>]
     ELSE [throws |-> FALSE, indices |-> props[ret].flattenedData,
           strides |-> props[ret].flattenedIndexStart, of |-> <<face, ret>>]

(***************************************************************************)
(* Input files.  A mesh is a list of elements, each with its property      *)
(* declarations and one row of cells per instance (a cell is the sequence  *)
(* of values of one property: one value for a scalar).  The three          *)
(* encoders write the PLY file of a mesh in each format.                   *)
(***************************************************************************)
MaxCount == 2
MaxListLen == 3

Scalar(name, typeName) ==
  [name |-> name, typeName |-> typeName, isList |-> FALSE, countTypeName |-> ""]
List(name, countTypeName, typeName) ==
  [name |-> name, typeName |-> typeName, isList |-> TRUE, countTypeName |-> countTypeName]

\* The element declarations of the input meshes: <<name, properties>> each.
Layouts ==
  << \* 1: the cube of the tests: float positions, uchar-counted int faces
     << <<"vertex", <<Scalar("x", "float"), Scalar("y", "float"), Scalar("z", "float")>> >>,
        <<"face", <<List("vertex_indices", "uchar", "int")>> >> >>,
     \* 2: positions and colors, faces under the name vertex_index
     << <<"vertex", <<Scalar("x", "short"), Scalar("y", "int16"), Scalar("z", "short"),
                      Scalar("red", "uchar"), Scalar("green", "uint8"), Scalar("blue", "uchar")>> >>,
        <<"face", <<List("vertex_index", "ushort", "uint16")>> >> >>,
     \* 3: mixed widths, a 4-byte list count
     << <<"vertex", <<Scalar("x", "double"), Scalar("y", "char"), Scalar("z", "int")>> >>,
        <<"face", <<List("vertex_indices", "uint", "ushort")>> >> >>,
     \* 4: x, y and z declared as lists
     << <<"vertex", <<List("x", "uchar", "char"), List("y", "uchar", "char"),
                      List("z", "uchar", "char")>> >>,
        <<"face", <<List("vertex_indices", "uchar", "uchar")>> >> >>,
     \* 5: a scalar vertex_indices beside a list vertex_index
     << <<"vertex", <<Scalar("x", "char"), Scalar("y", "char"), Scalar("z", "char")>> >>,
        <<"face", <<Scalar("vertex_indices", "int"), List("vertex_index", "uchar", "int")>> >> >>,
     \* 6: an element without properties before the vertices
     << <<"marker", <<>> >>,
        <<"vertex", <<Scalar("x", "uchar"), Scalar("y", "uchar"), Scalar("z", "uchar")>> >>,
        <<"face", <<List("vertex_indices", "uchar", "uint")>> >> >>,
     \* 7: neither a vertex nor a face element
     << <<"edge", <<Scalar("a", "ushort"), Scalar("b", "ushort")>> >>,
        <<"tag", <<Scalar("vertex_indices", "uchar")>> >> >>,
     \* 8: z missing; a face element whose only property is a scalar
     << <<"vertex", <<Scalar("x", "int"), Scalar("y", "int")>> >>,
        <<"face", <<Scalar("vertex_indices", "short")>> >> >>
  >>

\* The values written for each type, by turns.
Palette ==
  [t \in PropertyType |->
     CASE t = "char" -> <<0 - 1, 5, 0 - 128, 127>>
       [] t = "uchar" -> <<200, 0, 255, 7>>
       [] t = "short" -> <<0 - 2, 300, 0 - 32768, 9>>
       [] t = "ushort" -> <<258, 65535, 3, 0>>
       [] t = "int" -> <<0 - 3, 70000, 1, 0 - 65537>>
       [] t = "uint" -> <<4, 66000, 16777217, 0>>
       [] t = "float" -> <<0 - 4, 3, 1000, 0>>
       [] t = "double" -> <<0 - 5, 6, 2000, 0>>]

ValueAt(type, n) == Palette[type][(n % 4) + 1]

\* The length of the list of instance i (0-based).
ListLenAt(i) == IF i >= MaxListLen THEN 0 ELSE MaxListLen - i

\* The cell of property k (1-based) of instance i (0-based).
CellAt(decl, i, k) ==
  LET type == ResolveType(B(decl.typeName))
  IN IF decl.isList THEN [j \in 1..ListLenAt(i + k - 1) |-> ValueAt(type, i + k + j)]
     ELSE << ValueAt(type, 3 * i + k) >>

\* The mesh of a layout with the given instance count per element.
MeshOf(layout, counts) ==
  [e \in 1..Len(Layouts[layout]) |->
     [name |-> Layouts[layout][e][1],
      decls |-> Layouts[layout][e][2],
      rows |-> [i \in 1..counts[e] |->
                  [k \in 1..Len(Layouts[layout][e][2]) |->
                     CellAt(Layouts[layout][e][2][k], i - 1, k)]]]]

\* The header of a mesh in a format.
EncodeDecl(decl) ==
  IF decl.isList
  THEN B("property list ") \o B(decl.countTypeName) \o Sp \o B(decl.typeName) \o Sp
       \o B(decl.name) \o Nl
  ELSE B("property ") \o B(decl.typeName) \o Sp \o B(decl.name) \o Nl

EncodeHeader(mesh, formatLine) ==
  StrPlyNl \o formatLine \o Nl
  \o Concat([e \in 1..Len(mesh) |->
       StrElementSp \o B(mesh[e].name) \o Sp \o NumToStr(Len(mesh[e].rows)) \o Nl
       \o Concat([k \in 1..Len(mesh[e].decls) |-> EncodeDecl(mesh[e].decls[k])])])
  \o EndHeaderMarker

\* Tokens joined by one separator.
RECURSIVE Join(_, _)
Join(tokens, sep) ==
  IF tokens = <<>> THEN <<>>
  ELSE IF Len(tokens) = 1 THEN tokens[1]
  ELSE tokens[1] \o sep \o Join(Tail(tokens), sep)

\* The ASCII tokens of a cell: a list is its length, then its values.
CellTokens(decl, cell, delta) ==
  (IF decl.isList THEN << NumToStr(Len(cell) + delta) >> ELSE <<>>)
  \o [j \in 1..Len(cell) |-> NumToStr(cell[j])]

\* The line of an instance: its tokens; the filler for an instance of an
\* element without properties.  delta is added to every list count written
\* (0 in a well-formed file).
EncodeAsciiBody(mesh, sep, filler, delta) ==
  Concat([e \in 1..Len(mesh) |->
    Concat([i \in 1..Len(mesh[e].rows) |->
      (IF mesh[e].decls = <<>> THEN filler
       ELSE Join(Concat([k \in 1..Len(mesh[e].decls) |->
                           CellTokens(mesh[e].decls[k], mesh[e].rows[i][k], delta)]), sep))
      \o Nl])])

\* The bytes of a non-negative value in n bytes, most significant first.
RECURSIVE BytesOf(_, _)
BytesOf(v, n) == IF n = 0 THEN <<>> ELSE Append(BytesOf(v \div 256, n - 1), v % 256)

RECURSIVE Log2(_)
Log2(v) == IF v < 2 THEN 0 ELSE 1 + Log2(v \div 2)

Reverse(bytes) == [k \in 1..Len(bytes) |-> bytes[Len(bytes) + 1 - k]]

\* The field of a value of a type, most significant byte first.
EncodeField(type, v) ==
  LET n == GetNumByte(type)
      mag == IF v < 0 THEN 0 - v ELSE v
      sign == IF v < 0 THEN 128 ELSE 0
      e == Log2(mag)
  IN CASE type \in {"char", "uchar", "short", "ushort", "uint"} ->
            BytesOf(IF v < 0 THEN v + Pow2(8 * n) ELSE v, n)
       [] type = "int" ->
            IF v < 0 THEN << 255 - ((mag - 1) \div 16777216) >>
                          \o BytesOf(16777215 - ((mag - 1) % 16777216), 3)
            ELSE BytesOf(v, 4)
       [] type = "float" ->
            IF v = 0 THEN <<0, 0, 0, 0>>
            ELSE LET frac == (mag - Pow2(e)) * Pow2(23 - e)
                     ex == e + 127
                 IN << sign + (ex \div 2), (ex % 2) * 128 + (frac \div 65536) >>
                    \o BytesOf(frac % 65536, 2)
       [] type = "double" ->
            IF v = 0 THEN <<0, 0, 0, 0, 0, 0, 0, 0>>
            ELSE LET hi == (mag - Pow2(e)) * Pow2(20 - e)
                     ex == e + 1023
                 IN << sign + (ex \div 16), (ex % 16) * 16 + (hi \div 65536) >>
                    \o BytesOf(hi % 65536, 2) \o <<0, 0, 0, 0>>

EncodeValue(type, v, littleEndian) ==
  IF littleEndian THEN Reverse(EncodeField(type, v)) ELSE EncodeField(type, v)

\* The binary cell: a list is its count field, then its values.
EncodeCell(decl, cell, littleEndian) ==
  LET type == ResolveType(B(decl.typeName))
      countType == ResolveType(B(decl.countTypeName))
  IN (IF decl.isList
      THEN (IF littleEndian THEN Reverse(BytesOf(Len(cell), GetNumByte(countType)))
            ELSE BytesOf(Len(cell), GetNumByte(countType)))
      ELSE <<>>)
     \o Concat([j \in 1..Len(cell) |-> EncodeValue(type, cell[j], littleEndian)])

EncodeBinaryBody(mesh, littleEndian) ==
  Concat([e \in 1..Len(mesh) |->
    Concat([i \in 1..Len(mesh[e].rows) |->
      Concat([k \in 1..Len(mesh[e].decls) |->
                EncodeCell(mesh[e].decls[k], mesh[e].rows[i][k], littleEndian)])])])

AsciiFile(mesh, sep, filler) ==
  EncodeHeader(mesh, B("format ascii 1.0")) \o EncodeAsciiBody(mesh, sep, filler, 0)
LittleEndianFile(mesh) ==
  EncodeHeader(mesh, B("format binary_little_endian 1.0")) \o EncodeBinaryBody(mesh, TRUE)
BigEndianFile(mesh) ==
  EncodeHeader(mesh, B("format binary_big_endian 1.0")) \o EncodeBinaryBody(mesh, FALSE)

(***************************************************************************)
(* The program: one PlyData instance, the files, the write stream of save  *)
(***************************************************************************)
MaxLoads == 1
MaxSaves == 1
MaxReloads == 2

VARIABLES
  files,   \* path -> the bytes of the file, NoFile when there is none
  ply,     \* the PlyData instance: header and elements
  loads,   \* the load calls on the instance since its construction: <<path, ret, bytes read>>
  saves,   \* the number of save calls so far
  ws,      \* the write stream of the last save
  alive,   \* FALSE once an uncaught 'error' event has ended the process
  ret,     \* the last call and what it returned
  input    \* the mesh the input files encode

vars == <<files, ply, loads, saves, ws, alive, ret, input>>

InputPaths == {"ascii.ply", "little.ply", "big.ply", "other.ply"}
\* "out.ply" can be created; the directory of "missing/out.ply" does not
\* exist; "\\0" is no valid path.
OutputPaths == {"out.ply", "missing/out.ply", "\\0"}
Paths == InputPaths \cup OutputPaths
LoadPaths == InputPaths \cup {"out.ply"}
ValidPath(path) == path # "\\0"
CanCreate(path) == path # "missing/out.ply"

NoStream == [state |-> "none", path |-> "", data |-> <<>>]
NoCall == [op |-> "none", path |-> "", ret |-> "none", values |-> <<>>, strides |-> <<>>,
           of |-> <<0, 0>>]
Call(op, path, r) == [NoCall EXCEPT !.op = op, !.path = path, !.ret = r]

\* const ply = new PlyData()
New ==
  /\ alive /\ loads # <<>>
  /\ ply' = NewPlyData
  /\ loads' = <<>>
  /\ ret' = Call("new", "", "none")
  /\ UNCHANGED <<files, saves, ws, input>> /\ UNCHANGED alive

\* ply.load(path), the instance having been loaded fewer than `most` times:
\* fs.readFileSync throws when there is no file.
LoadWithin(path, most) ==
  LET Returned(r, b) ==
        /\ ply' = r.ply
        /\ ret' = Call("load", path, b)
        /\ loads' = Append(loads, <<path, b, files[path]>>)
      Loaded(r) == Returned(r, IF r.ret THEN "true" ELSE "false")
  IN /\ alive /\ Len(loads) < most
     /\ IF files[path] = NoFile
        THEN /\ ret' = Call("load", path, "throw")
             /\ loads' = Append(loads, <<path, "throw", NoFile>>)
             /\ UNCHANGED ply
        ELSE Loaded(LoadBytes(ply, files[path]))
     /\ UNCHANGED <<files, saves, ws, alive, input>>

Load(path) == LoadWithin(path, MaxLoads)

\* ply.save(path): fs.createWriteStream throws on an invalid path; the
\* stream opens, writes and closes later, from the event loop.
Save(path) ==
  /\ alive /\ saves < MaxSaves /\ ws.state \in {"none", "closed"}
  /\ saves' = saves + 1
  /\ IF ~ValidPath(path)
     THEN /\ ret' = Call("save", path, "false")
          /\ UNCHANGED ws
     ELSE /\ ret' = Call("save", path, "true")
          /\ ws' = [state |-> "ended", path |-> path, data |-> Concat(SaveChunks(ply))]
  /\ UNCHANGED <<files, ply, loads, alive, input>>

\* The stream opens its file (flags 'w': created or truncated).  When the
\* open fails the stream emits 'error', which has no listener.
WsOpen ==
  /\ alive /\ ws.state = "ended"
  /\ IF CanCreate(ws.path)
     THEN /\ files' = [files EXCEPT ![ws.path] = <<>>]
          /\ ws' = [ws EXCEPT !.state = "open"]
          /\ UNCHANGED alive
     ELSE /\ ws' = [ws EXCEPT !.state = "error"]
          /\ alive' = FALSE
          /\ UNCHANGED files
  /\ UNCHANGED <<ply, loads, saves, ret, input>>

\* The buffered chunks are written to the file.
WsWrite ==
  /\ alive /\ ws.state = "open"
  /\ files' = [files EXCEPT ![ws.path] = ws.data]
  /\ ws' = [ws EXCEPT !.state = "written"]
  /\ UNCHANGED <<ply, loads, saves, alive, ret, input>>

\* A write fails (the disk is full): 'error', which has no listener.
WsWriteFail ==
  /\ alive /\ ws.state = "open"
  /\ ws' = [ws EXCEPT !.state = "error"]
  /\ alive' = FALSE
  /\ UNCHANGED <<files, ply, loads, saves, ret, input>>

\* The stream finishes and closes its file.
WsClose ==
  /\ alive /\ ws.state = "written"
  /\ ws' = [ws EXCEPT !.state = "closed"]
  /\ UNCHANGED <<files, ply, loads, saves, alive, ret, input>>

Accessor(op, r) ==
  /\ alive
  /\ ret' = [Call(op, "", IF r.throws THEN "throw" ELSE "value") EXCEPT
               !.values = r.values, !.strides = r.strides, !.of = r.of]
  /\ UNCHANGED <<files, ply, loads, saves, ws, alive, input>>

NoStrides(r) == [throws |-> r.throws, values |-> r.values, strides |-> <<>>, of |-> <<0, 0>>]

\* ply.getVertexPositions()
CallGetVertexPositions ==
  Accessor("getVertexPositions", NoStrides(GetVertexPositions(ply, VertexName)))

\* ply.getVertexColors()
CallGetVertexColors ==
  Accessor("getVertexColors", NoStrides(GetVertexColors(ply, VertexName)))

\* ply.getFaces()
CallGetFaces ==
  LET Faces(f) ==
        Accessor("getFaces",
                 [throws |-> f.throws, values |-> f.indices, strides |-> f.strides, of |-> f.of])
  IN Faces(GetFaces(ply))

Next ==
  \/ New
  \/ \E path \in LoadPaths : Load(path)
  \/ \E path \in OutputPaths : Save(path)
  \/ WsOpen
  \/ WsWrite
  \/ WsWriteFail
  \/ WsClose
  \/ CallGetVertexPositions
  \/ CallGetVertexColors
  \/ CallGetFaces

NoFiles == [path \in Paths |-> NoFile]

\* The instance counts of the elements of a layout.
CountsOf(layout) == [1..Len(Layouts[layout]) -> 0..MaxCount]

Separator(layout) == IF layout % 2 = 0 THEN B("\t") ELSE Sp

\* The line written for an instance of an element without properties: a
\* line the ASCII reader consumes for it ("m"), or a blank line.
Fillers(layout) ==
  IF \E e \in 1..Len(Layouts[layout]) : Layouts[layout][e][2] = <<>> THEN {B("m"), <<>>}
  ELSE {B("m")}

NoInput ==
  [kind |-> "", layout |-> 0, counts |-> <<>>, filler |-> <<>>, format |-> <<>>,
   body |-> "", dropped |-> 0, delta |-> 0]

InitProgram ==
  /\ ply = NewPlyData
  /\ loads = <<>>
  /\ saves = 0
  /\ ws = NoStream
  /\ alive = TRUE
  /\ ret = NoCall

\* The three encodings of one mesh.
Init ==
  /\ InitProgram
  /\ \E layout \in 1..Len(Layouts) : \E counts \in CountsOf(layout) :
     \E filler \in Fillers(layout) :
       LET mesh == MeshOf(layout, counts)
       IN /\ input = [NoInput EXCEPT !.kind = "mesh", !.layout = layout, !.counts = counts,
                                     !.filler = filler]
          /\ files = [NoFiles EXCEPT !["ascii.ply"] = AsciiFile(mesh, Separator(layout), filler),
                                     !["little.ply"] = LittleEndianFile(mesh),
                                     !["big.ply"] = BigEndianFile(mesh)]

Spec == Init /\ [][Next]_vars

\* The calls that read: construction, load and the accessors.
NextLoad ==
  \/ New
  \/ \E path \in LoadPaths : Load(path)
  \/ CallGetVertexPositions
  \/ CallGetVertexColors
  \/ CallGetFaces

SpecLoad == Init /\ [][NextLoad]_vars

(***************************************************************************)
(* Malformed input files, as "other.ply"                                   *)
(***************************************************************************)
MaxCut == 2

\* Format lines, as their tokens.  The first three are the valid ones.
FormatLines ==
  { <<"format", "ascii", "1.0">>,
    <<"format", "binary_little_endian", "1.0">>,
    <<"format", "binary_big_endian", "1.0">>,
    <<"format", "xml", "1.0">>,
    <<"format", "ASCII", "1.0">>,
    <<"format", "ascii", "2.0">>,
    <<"format", "ascii", "1.00">>,
    <<"format", "binary_little_endian", "1">>,
    <<"format", "binary_big_endian", "1.1">>,
    <<"format", "ascii">>,
    <<"format", "ascii", "1.0", "">>,
    <<"format", "", "ascii", "1.0">>,
    <<"fmt", "ascii", "1.0">>,
    <<"", "format", "ascii", "1.0">> }

BodyOf(mesh, body) ==
  IF body = "ascii" THEN EncodeAsciiBody(mesh, Sp, B("m"), 0)
  ELSE EncodeBinaryBody(mesh, body = "little")

\* The header of the tokens of a format line, separated by sep.
FormatFile(mesh, format, sep, body) ==
  EncodeHeader(mesh, Join([k \in 1..Len(format) |-> B(format[k])], sep)) \o BodyOf(mesh, body)

\* A binary file whose body lacks its last `dropped` bytes.
CutFile(mesh, body, dropped) ==
  LET whole == BodyOf(mesh, body)
      line == IF body = "little" THEN B("format binary_little_endian 1.0")
              ELSE B("format binary_big_endian 1.0")
  IN EncodeHeader(mesh, line) \o SubSeq(whole, 1, Len(whole) - dropped)

\* An ASCII file whose list counts are off by delta.
CountFile(mesh, delta) ==
  EncodeHeader(mesh, B("format ascii 1.0")) \o EncodeAsciiBody(mesh, Sp, B("m"), delta)

InitFormat ==
  \E counts \in CountsOf(1) : \E format \in FormatLines : \E body \in {"ascii", "little"} :
  \E tab \in BOOLEAN :
    /\ tab => format = <<"format", "ascii", "1.0">>
    /\ input = [NoInput EXCEPT !.kind = "format", !.layout = 1, !.counts = counts,
                               !.format = format, !.body = body,
                               !.filler = IF tab THEN B("\t") ELSE Sp]
    /\ files = [NoFiles EXCEPT !["other.ply"] =
                  FormatFile(MeshOf(1, counts), format, IF tab THEN B("\t") ELSE Sp, body)]

InitCut ==
  \E layout \in 1..Len(Layouts) : \E counts \in CountsOf(layout) : \E body \in {"little", "big"} :
    LET mesh == MeshOf(layout, counts)
        size == Len(BodyOf(mesh, body))
    IN \E dropped \in ((1..MaxCut) \cup {size}) \cap (1..size) :
         /\ input = [NoInput EXCEPT !.kind = "cut", !.layout = layout, !.counts = counts,
                                    !.body = body, !.dropped = dropped]
         /\ files = [NoFiles EXCEPT !["other.ply"] = CutFile(mesh, body, dropped)]

InitCount ==
  \E layout \in 1..Len(Layouts) : \E counts \in CountsOf(layout) :
  \E delta \in {0 - MaxListLen - 1, 1} :
    /\ \E e \in 1..Len(Layouts[layout]) : \E k \in 1..Len(Layouts[layout][e][2]) :
         Layouts[layout][e][2][k].isList /\ counts[e] > 0
    /\ input = [NoInput EXCEPT !.kind = "count", !.layout = layout, !.counts = counts,
                               !.body = "ascii", !.delta = delta]
    /\ files = [NoFiles EXCEPT !["other.ply"] = CountFile(MeshOf(layout, counts), delta)]

(***************************************************************************)
(* Several loads on one instance: the three files of a mesh and, as        *)
(* "other.ply", its ASCII file with a comment and an obj_info line.        *)
(***************************************************************************)
CommentedFile(mesh) ==
  EncodeHeader(mesh, B("format ascii 1.0\ncomment made by hand\nobj_info scale 1"))
  \o EncodeAsciiBody(mesh, Sp, B("m"), 0)

InitReload ==
  /\ InitProgram
  /\ \E layout \in 1..Len(Layouts) : \E counts \in CountsOf(layout) :
       LET mesh == MeshOf(layout, counts)
       IN /\ input = [NoInput EXCEPT !.kind = "reload", !.layout = layout, !.counts = counts,
                                     !.filler = B("m")]
          /\ files = [NoFiles EXCEPT !["ascii.ply"] = AsciiFile(mesh, Separator(layout), B("m")),
                                     !["little.ply"] = LittleEndianFile(mesh),
                                     !["big.ply"] = BigEndianFile(mesh),
                                     !["other.ply"] = CommentedFile(mesh)]

NextReload ==
  \/ New
  \/ \E path \in LoadPaths : LoadWithin(path, MaxReloads)

SpecReload == InitReload /\ [][NextReload]_vars

\* A file without the marker (the header stops before the line feed of
\* end_header and nothing follows), or with the marker a second time, after
\* the body.
MarkerFile(mesh, body, variant) ==
  LET line == IF body = "ascii" THEN B("format ascii 1.0")
              ELSE B("format binary_little_endian 1.0")
      Without(header) == SubSeq(header, 1, Len(header) - 1)
  IN IF variant = "none" THEN Without(EncodeHeader(mesh, line))
     ELSE EncodeHeader(mesh, line) \o BodyOf(mesh, body) \o EndHeaderMarker

InitMarker ==
  \E counts \in CountsOf(1) : \E body \in {"ascii", "little"} : \E variant \in {"none", "twice"} :
    /\ input = [NoInput EXCEPT !.kind = "marker", !.layout = 1, !.counts = counts,
                               !.body = body, !.format = <<variant>>]
    /\ files = [NoFiles EXCEPT !["other.ply"] = MarkerFile(MeshOf(1, counts), body, variant)]

InitMalformed == InitProgram /\ (InitFormat \/ InitCut \/ InitCount \/ InitMarker)

SpecMalformed == InitMalformed /\ [][NextLoad]_vars

(***************************************************************************)
(* Properties                                                              *)
(***************************************************************************)
\* The state after the first load on a new instance, or after accessor
\* calls that followed it.
FirstLoad(path) == Len(loads) = 1 /\ loads[1][1] = path
JustLoaded(path) == FirstLoad(path) /\ ret.op = "load"

\* The number of instances a property holds.
InstanceCount(property) ==
  IF property.isList THEN Len(property.flattenedIndexStart) - 1 ELSE Len(property.values)

\* What an accessor call gave, as the record kept in ret.
Outcome(r) == [ret |-> IF r.throws THEN "throw" ELSE "value", values |-> r.values]
ReturnedOutcome == [ret |-> ret.ret, values |-> ret.values]
FacesOutcome(f) ==
  [ret |-> IF f.throws THEN "throw" ELSE "value", values |-> f.indices, strides |-> f.strides]
ReturnedFaces == [ret |-> ret.ret, values |-> ret.values, strides |-> ret.strides]

\* C1: the big-endian decoder populates, from the byte-swapped encoding of a
\* mesh, the same values in the same order in every property as the
\* little-endian decoder does from the little-endian encoding.
C1_BigEndianAsLittleEndian ==
  (input.kind = "mesh" /\ JustLoaded("big.ply")) =>
    ply.elements = LoadBytes(NewPlyData, files["little.ply"]).ply.elements

\* C2: whenever load returns true, every property of every element holds
\* exactly element.count instances.
C2_LoadedInstanceCounts ==
  (Len(loads) = 1 /\ ret.op = "load" /\ ret.ret = "true") =>
    \A e \in 1..Len(ply.elements) : \A k \in 1..Len(ply.elements[e].properties) :
      InstanceCount(ply.elements[e].properties[k]) = ply.elements[e].count

\* C3: in every list property, whatever was consumed, flattenedIndexStart
\* starts with 0, is non-decreasing and ends with the length of flattenedData.
C3_ListIndexInvariant ==
  \A e \in 1..Len(ply.elements) : \A k \in 1..Len(ply.elements[e].properties) :
    LET property == ply.elements[e].properties[k]
        start == property.flattenedIndexStart
    IN property.isList =>
         /\ start[1] = 0
         /\ \A i \in 1..(Len(start) - 1) : start[i] <= start[i + 1]
         /\ start[Len(start)] = Len(property.flattenedData)

C5_RoundTrip ==
  LET original == LoadBytes(NewPlyData, files["ascii.ply"])
  IN (/\ input.kind = "mesh" /\ FirstLoad("out.ply")
      /\ original.ret
      /\ loads[1][3] = Concat(SaveChunks(original.ply))) =>
       /\ loads[1][2] = "true"
       /\ ret.op = "getVertexPositions" =>
            ReturnedOutcome = Outcome(GetVertexPositions(original.ply, VertexName))
       /\ ret.op = "getFaces" => ReturnedFaces = FacesOutcome(GetFaces(original.ply))

\* C6: load returns false on a binary file whose body lacks its last bytes,
\* all of them included.
C6_TruncatedBinaryFalse ==
  (input.kind = "cut" /\ JustLoaded("other.ply")) => ret.ret = "false"

\* The format line the header grammar accepts.
ValidFormat(tokens) ==
  /\ Len(tokens) = 3
  /\ tokens[1] = "format"
  /\ tokens[2] \in {"ascii", "binary_little_endian", "binary_big_endian"}
  /\ tokens[3] = "1.0"

\* C7: load returns false whenever the format line is not exactly the
\* tokens `format`, a supported format type and the version 1.0.
C7_BadFormatLineFalse ==
  (input.kind = "format" /\ ~ValidFormat(input.format)
     /\ ret.op = "load" /\ ret.path = "other.ply") => ret.ret = "false"

\* A file with a body and the line `format ascii 2.0` was refused.
C7_Witness_Version ==
  /\ input.kind = "format" /\ input.format = <<"format", "ascii", "2.0">>
  /\ input.body = "ascii" /\ input.counts = <<MaxCount, MaxCount>>
  /\ JustLoaded("other.ply") /\ ret.ret = "false"

\* C8: when save has returned true, the stream is closed and the file
\* holds every chunk in order.
C8_SaveTrueWhenWritten ==
  (ret.op = "save" /\ ret.ret = "true") =>
    /\ ws.state = "closed"
    /\ files[ret.path] = ws.data

\* Whether the element is absent, one of the three properties is absent, or
\* a located property is no scalar property.
NotScalarTriple(elements, names) ==
  \/ \A e \in 1..Len(elements) : elements[e].name # VertexName
  \/ LET e == CHOOSE e \in 1..Len(elements) :
                /\ elements[e].name = VertexName
                /\ \A d \in 1..(e - 1) : elements[d].name # VertexName
         props == elements[e].properties
     IN \E n \in names :
          \/ \A k \in 1..Len(props) : props[k].name # n
          \/ LET k == CHOOSE k \in 1..Len(props) :
                        props[k].name = n /\ \A j \in 1..(k - 1) : props[j].name # n
             IN props[k].isList

\* C9: getVertexPositions and getVertexColors throw whenever the element or
\* one of their three properties is absent or a located property is a list.
C9_VertexValuesThrow ==
  /\ (ret.op = "getVertexPositions" /\ NotScalarTriple(ply.elements, {NameX, NameY, NameZ}))
       => ret.ret = "throw"
  /\ (ret.op = "getVertexColors" /\ NotScalarTriple(ply.elements, {NameRed, NameGreen, NameBlue}))
       => ret.ret = "throw"

\* What getFaces is to give when `located` is the property it takes in
\* the face element (0 for none): the stored sequences of a list property,
\* an error otherwise.
FacesAre(face, located) ==
  IF face = 0 \/ located = 0 \/ ~ply.elements[face].properties[located].isList
  THEN ret.ret = "throw"
  ELSE /\ ret.ret = "value"
       /\ ret.of = <<face, located>>
       /\ ret.values = ply.elements[face].properties[located].flattenedData
       /\ ret.strides = ply.elements[face].properties[located].flattenedIndexStart

\* C10 as stated: getFaces takes vertex_indices, and vertex_index only when
\* vertex_indices is absent; it throws when there is no face element, neither
\* name is present, or the property it takes is no list property.
C10_FacesFallbackWhenAbsent ==
  ret.op = "getFaces" =>
    LET face == FindByName(ply.elements, FaceName)
        props == IF face = 0 THEN <<>> ELSE ply.elements[face].properties
        vertexIndices == FindByName(props, NameVertexIndices)
    IN FacesAre(face, IF vertexIndices # 0 THEN vertexIndices
                      ELSE FindByName(props, NameVertexIndex))

\* C10: getFaces takes vertex_indices when it is a list property, and
\* vertex_index when vertex_indices is absent or is no list property; it throws
\* when there is no face element or the property it takes is absent or no list.
C10_FacesFallbackWhenNoList ==
  ret.op = "getFaces" =>
    LET face == FindByName(ply.elements, FaceName)
        props == IF face = 0 THEN <<>> ELSE ply.elements[face].properties
        vertexIndices == FindByName(props, NameVertexIndices)
    IN FacesAre(face, IF vertexIndices # 0 /\ props[vertexIndices].isList THEN vertexIndices
                      ELSE FindByName(props, NameVertexIndex))

\* getFaces returned the lists of vertex_index from a face element whose
\* vertex_indices is a scalar property.
C10_Witness_ScalarVertexIndices ==
  /\ input.kind = "mesh" /\ FirstLoad("ascii.ply") /\ loads[1][2] = "true"
  /\ ret.op = "getFaces" /\ ret.ret = "value" /\ Len(ret.strides) = MaxCount + 1
  /\ LET props == ply.elements[ret.of[1]].properties
     IN /\ FindByName(props, NameVertexIndices) # 0
        /\ ~props[FindByName(props, NameVertexIndices)].isList
        /\ props[ret.of[2]].name = NameVertexIndex

\* Whether the marker stands in data at the 0-based position i.
MarkerAt(data, i) ==
  /\ i + Len(B("end_header\n")) <= Len(data)
  /\ SubSeq(data, i + 1, i + Len(B("end_header\n"))) = B("end_header\n")

\* What load is to return and leave in a new instance when the header half
\* is `header` and the body codec of the declared format is fed `rest`.
LoadedFromHalves(header, rest) ==
  LET Codec(h) ==
        IF ~h.ok THEN [ret |-> "false", ply |-> h.ply]
        ELSE LET Fed(b) == [ret |-> IF b.ok THEN "true" ELSE "false", ply |-> b.ply]
             IN IF h.ply.header.type = B("ascii")
                  THEN Fed(ParseAscii(h.ply, SplitLines(BufferToString(rest))))
                ELSE IF h.ply.header.type = B("binary_little_endian")
                  THEN Fed(ParseBinary(h.ply, rest))
                ELSE IF h.ply.header.type = B("binary_big_endian")
                  THEN Fed(ParseBinaryBigEndian(h.ply, rest))
                ELSE [ret |-> "false", ply |-> h.ply]
  IN Codec(ParseHeader(NewPlyData, SplitLines(BufferToString(header))))

\* C11: load splits the bytes at the first occurrence of the marker: the
\* header half ends with the marker, the remainder is the bytes strictly after
\* it (none when the marker ends the file) and is fed to the one body codec of
\* the declared format; without the marker load returns false.
C11_SplitAtFirstMarker ==
  (Len(loads) = 1 /\ ret.op = "load" /\ ret.ret # "throw") =>
    LET data == loads[1][3]
        found == {i \in 0..(Len(data) - 1) : MarkerAt(data, i)}
        At(i) ==
          LET header == SubSeq(data, 1, i + Len(B("end_header\n")))
              rest == SubSeq(data, i + Len(B("end_header\n")) + 1, Len(data))
              Same(expected) == ret.ret = expected.ret /\ ply = expected.ply
          IN /\ SplitByEndHeader(data) = <<header, rest>>
             /\ Same(LoadedFromHalves(header, rest))
    IN IF found = {} THEN ret.ret = "false" /\ ply = NewPlyData
       ELSE At(CHOOSE i \in found : \A j \in found : i <= j)

IsPrefix(a, b) == Len(a) <= Len(b) /\ SubSeq(b, 1, Len(a)) = a

\* What a property line declares.
Declared(property) ==
  [name |-> property.name, type |-> property.type, isList |-> property.isList,
   listCountBytes |-> property.listCountBytes]

\* The element `old` is still there as `new`: its name and count, its
\* properties as declared, and the values they held, first.
ElementKept(old, new) ==
  /\ new.name = old.name /\ new.count = old.count
  /\ Len(old.properties) <= Len(new.properties)
  /\ \A k \in 1..Len(old.properties) :
       /\ Declared(new.properties[k]) = Declared(old.properties[k])
       /\ IsPrefix(old.properties[k].values, new.properties[k].values)
       /\ IsPrefix(old.properties[k].flattenedData, new.properties[k].flattenedData)
       /\ IsPrefix(old.properties[k].flattenedIndexStart, new.properties[k].flattenedIndexStart)

\* The elements of the file's header follow the n earlier elements.
DeclaredAfter(n, elements) ==
  /\ Len(elements) = n + Len(Layouts[input.layout])
  /\ \A e \in 1..Len(Layouts[input.layout]) :
       /\ elements[n + e].name = B(Layouts[input.layout][e][1])
       /\ elements[n + e].count = input.counts[e]
       /\ Len(elements[n + e].properties) = Len(Layouts[input.layout][e][2])

\* The instances each earlier property received from the later body: one
\* per instance of its element from the ASCII and the little-endian codec,
\* some from the big-endian one.
FedAgain(old, new, type) ==
  \A e \in 1..Len(old) : \A k \in 1..Len(old[e].properties) :
    IF type = B("binary_big_endian")
    THEN InstanceCount(new[e].properties[k]) > InstanceCount(old[e].properties[k])
    ELSE InstanceCount(new[e].properties[k])
           = InstanceCount(old[e].properties[k]) + old[e].count

\* C12: a load on an instance that already holds elements keeps them, and
\* the header's comments, as a prefix of the model; when it returns true the
\* elements of its header are appended after them and every earlier property has
\* received further instances from its body.
C12_LoadKeepsModel ==
  [][(Len(loads') = Len(loads) + 1 /\ ply.elements # <<>>) =>
       /\ Len(ply.elements) <= Len(ply'.elements)
       /\ \A e \in 1..Len(ply.elements) : ElementKept(ply.elements[e], ply'.elements[e])
       /\ IsPrefix(ply.header.comments, ply'.header.comments)
       /\ IsPrefix(ply.header.objInfoComments, ply'.header.objInfoComments)
       /\ ret'.ret = "true" =>
            /\ DeclaredAfter(Len(ply.elements), ply'.elements)
            /\ FedAgain(ply.elements, ply'.elements, ply'.header.type)]_vars

\* The commented file was loaded twice with true: both comments are held,
\* the elements are declared twice and the first property holds two values.
C12_Witness_LoadedTwice ==
  /\ input.kind = "reload" /\ Len(loads) = 2
  /\ loads[1][1] = "other.ply" /\ loads[2][1] = "other.ply"
  /\ loads[1][2] = "true" /\ loads[2][2] = "true"
  /\ Len(ply.header.comments) = 2
  /\ Len(ply.elements) = 2 * Len(Layouts[input.layout])
  /\ ply.elements[1].count = 1
  /\ InstanceCount(ply.elements[1].properties[1]) = 2

============================================================================
